---- MODULE Spec2Model ----
(***************************************************************************)
(* A model of aiosurrealdb/ws.py: the Surreal websocket client.  One       *)
(* session object (class Surreal) is driven by a caller that runs one      *)
(* operation at a time: connect(), close() and the RPC methods.  The       *)
(* aiohttp client session, the websocket and the server behind it are the  *)
(* environment: each of their operations either succeeds or raises.        *)
(***************************************************************************)
EXTENDS Integers, Sequences, FiniteSets, TLC

VARIABLES
    client_state,   \* self.client_state
    token,          \* self.token
    session,        \* self.session: None, or the ClientSession created by connect()
    ws,             \* self.ws: None, or the websocket returned by ws_connect
    openSessions,   \* ClientSession objects created and not yet closed
    openWs,         \* websockets opened and not yet closed
    nConn,          \* number of connect() calls made so far (names the objects)
    inbox,          \* ids of the requests whose reply is queued on self.ws, oldest first
    nextId,         \* number of request ids generated so far
    last,           \* what the last operation did and how it ended
    tasks           \* where a call and a close() running as two tasks stand

vars == <<client_state, token, session, ws, openSessions, openWs, nConn,
          inbox, nextId, last, tasks>>

----------------------------------------------------------------------------
(* Bounds of the model *)

MaxCalls == 2

MaxConnects == 2

----------------------------------------------------------------------------
(* ConnectionState *)

CONNECTING == 0

CONNECTED == 1

DISCONNECTED == 2

ConnectionState == {CONNECTING, CONNECTED, DISCONNECTED}

----------------------------------------------------------------------------
(* Python and JSON values.  JSON null decodes to Python None. *)

None == "None"

NoObject == 0

\* bool(value) of a decoded JSON value
Truthy(v) == v \notin {None, "0", "''", "[]", "{}", "False"}

\* result payloads a server answers with
Results == {None, "[]", "tok"}

\* {code, message} envelopes a server answers with
ServerErrors == {[code |-> 100, message |-> "bad auth"]}

----------------------------------------------------------------------------
(* Outcomes of an operation: it returns a value or raises an exception.   *)
(* An exception is its class and the arguments it was constructed with.    *)

StrArg(s) == [t |-> "str", s |-> s, n |-> 0]

IntArg(n) == [t |-> "int", s |-> "", n |-> n]

NoOutcome == [kind |-> "none", value |-> None, exc |-> "", args |-> <<>>]

Return(v) == [kind |-> "return", value |-> v, exc |-> "", args |-> <<>>]

\* raise exception(message)
Raise(exception, message) ==
    [kind |-> "raise", value |-> None, exc |-> exception, args |-> <<StrArg(message)>>]

\* an exception raised inside aiohttp by ws_connect, send_json, receive_json or close
TransportRaise(exception) ==
    [kind |-> "raise", value |-> None, exc |-> exception, args |-> <<>>]

NotConnectedMessage == "Not connected to Surreal server."

----------------------------------------------------------------------------
(* Request *)

NoParams == [none |-> TRUE, items |-> <<>>]

Params(items) == [none |-> FALSE, items |-> items]

\* a validator that hands the value on as it is
ValidateParamsKeepsNone(value) == value

\* Request.validate_params: () if value is None else value
validate_params(value) == IF value.none THEN Params(<<>>) ELSE value

\* Request(id=..., method=..., params=...)
Request(id, method, params) ==
    [id |-> id, method |-> method, params |-> validate_params(params)]

NoRequest == [id |-> 0, method |-> "", params |-> Params(<<>>)]

----------------------------------------------------------------------------
(* Inbound frames and responses *)

\* the "error" member of a frame: absent, a {code, message} object, or another value
NoError == [tag |-> "absent", value |-> None, code |-> 0, message |-> ""]

ErrorObject(e) == [tag |-> "object", value |-> None, code |-> e.code, message |-> e.message]

ErrorValue(v) == [tag |-> "value", value |-> v, code |-> 0, message |-> ""]

\* {"id": id, "result": result}
SuccessFrame(id, result) ==
    [hasId |-> TRUE, id |-> id, result |-> result, error |-> NoError]

\* {"error": {"code": code, "message": message}}
ErrorFrame(e) ==
    [hasId |-> FALSE, id |-> 0, result |-> None, error |-> ErrorObject(e)]

NoFrame == [hasId |-> FALSE, id |-> 0, result |-> None, error |-> NoError]

\* the frames a server may answer the request `id` with
ServerFrames(id) ==
    {SuccessFrame(id, r) : r \in Results} \cup {ErrorFrame(e) : e \in ServerErrors}

NoResponse == [type |-> "none", id |-> 0, result |-> None, code |-> 0, message |-> ""]

Invalid(exception) ==
    [type |-> exception, id |-> 0, result |-> None, code |-> 0, message |-> ""]

\* a ResponseSuccess that keeps the result only when it is truthy
ResponseSuccessTruthyResult(frame) ==
    IF frame.hasId
    THEN [type |-> "ResponseSuccess", id |-> frame.id,
          result |-> IF Truthy(frame.result) THEN frame.result ELSE None,
          code |-> 0, message |-> ""]
    ELSE Invalid("ValidationError")

\* ResponseSuccess(**response): id is a required field, result is Any
ResponseSuccess(frame) ==
    IF frame.hasId
    THEN [type |-> "ResponseSuccess", id |-> frame.id, result |-> frame.result,
          code |-> 0, message |-> ""]
    ELSE Invalid("ValidationError")

\* ResponseError(**response["error"]): only a mapping can be unpacked
ResponseError(error) ==
    IF error.tag = "object"
    THEN [type |-> "ResponseError", id |-> 0, result |-> None,
          code |-> error.code, message |-> error.message]
    ELSE Invalid("TypeError")

\* a test for the presence of the member instead of its truth value
GetErrorPresent(frame) == frame.error.tag # "absent"

\* bool(response.get("error")): a missing member reads as None
GetErrorTruthy(frame) ==
    CASE frame.error.tag = "absent" -> Truthy(None)
      [] frame.error.tag = "object" -> TRUE
      [] OTHER -> Truthy(frame.error.value)

\* _recv, the decoding of the received frame
ParseResponse(frame) ==
    IF GetErrorTruthy(frame) THEN ResponseError(frame.error) ELSE ResponseSuccess(frame)

\* _validate_response: outcome "none" stands for returning the response
_validate_response(response, exception) ==
    IF response.type = "ResponseError"
    THEN Raise(exception, response.message)
    ELSE NoOutcome

----------------------------------------------------------------------------
(* The RPC methods of Surreal.  Each builds a Request, calls _send_receive, *)
(* validates the response with its exception class and returns.            *)

Methods ==
    {"use", "signup", "signin", "invalidate", "authenticate", "let", "set",
     "query", "select", "create", "update", "merge", "patch", "delete",
     "info", "live", "ping", "kill"}

\* methods whose last argument (vars or data) may be None
OptionalData == {"query", "create", "update", "merge", "patch"}

\* the method=... each Python method puts in its Request
RpcMethod(m) ==
    CASE m = "set" -> "let"
      [] m = "merge" -> "change"
      [] m = "patch" -> "modify"
      [] OTHER -> m

\* the params=... each Python method puts in its Request; withData tells
\* whether the optional vars/data argument was given
MethodParams(m, withData) ==
    CASE m = "use" -> Params(<<"namespace", "database">>)
      [] m \in {"signup", "signin"} -> Params(<<"vars">>)
      [] m = "authenticate" -> Params(<<"token">>)
      [] m \in {"let", "set"} -> Params(<<"key", "value">>)
      [] m = "query" -> IF withData THEN Params(<<"sql", "vars">>) ELSE Params(<<"sql">>)
      [] m \in {"create", "update", "merge", "patch"} ->
            IF withData THEN Params(<<"thing", "data">>) ELSE Params(<<"thing">>)
      [] m \in {"select", "delete"} -> Params(<<"thing">>)
      [] m = "live" -> Params(<<"table">>)
      [] m = "kill" -> Params(<<"query">>)
      [] OTHER -> NoParams   \* invalidate, info, ping: params left to its default

\* authenticate left with the default exception class
ExceptionOfAuthenticateDefault(m) ==
    CASE m \in {"signup", "signin", "invalidate"} -> "SurrealAuthenticationException"
      [] m \in {"let", "set", "create", "update", "merge", "patch", "delete"} ->
            "SurrealPermissionException"
      [] OTHER -> "SurrealException"

\* kill handing the permission exception class
ExceptionOfKillPermission(m) ==
    CASE m \in {"signup", "signin", "invalidate", "authenticate"} ->
            "SurrealAuthenticationException"
      [] m \in {"let", "set", "create", "update", "merge", "patch", "delete", "kill"} ->
            "SurrealPermissionException"
      [] OTHER -> "SurrealException"

\* the exception class each method hands to _validate_response
ExceptionOf(m) ==
    CASE m \in {"signup", "signin", "invalidate", "authenticate"} ->
            "SurrealAuthenticationException"
      [] m \in {"let", "set", "create", "update", "merge", "patch", "delete"} ->
            "SurrealPermissionException"
      [] OTHER -> "SurrealException"

\* authenticate caching the result of its call as the token
MethodResultAuthenticateCaches(m, success, tok) ==
    CASE m \in {"signup", "signin"} ->
            [outcome |-> Return(success.result), token |-> success.result]
      [] m = "invalidate" -> [outcome |-> Return(None), token |-> None]
      [] m = "authenticate" -> [outcome |-> Return(None), token |-> success.result]
      [] m = "use" -> [outcome |-> Return(None), token |-> tok]
      [] OTHER -> [outcome |-> Return(success.result), token |-> tok]

\* signup returning the token without caching it
MethodResultSignupKeepsToken(m, success, tok) ==
    CASE m = "signin" -> [outcome |-> Return(success.result), token |-> success.result]
      [] m = "invalidate" -> [outcome |-> Return(None), token |-> None]
      [] m \in {"use", "authenticate"} -> [outcome |-> Return(None), token |-> tok]
      [] OTHER -> [outcome |-> Return(success.result), token |-> tok]

\* what a method does with a validated ResponseSuccess: the value it returns
\* and the token it leaves
MethodResult(m, success, tok) ==
    CASE m \in {"signup", "signin"} ->
            [outcome |-> Return(success.result), token |-> success.result]
      [] m = "invalidate" -> [outcome |-> Return(None), token |-> None]
      [] m \in {"use", "authenticate"} -> [outcome |-> Return(None), token |-> tok]
      [] OTHER -> [outcome |-> Return(success.result), token |-> tok]

----------------------------------------------------------------------------
(* Send and receive *)

\* a check that refuses only a closed session
ValidateConnectionOnlyClosed(state) ==
    IF state = DISCONNECTED
    THEN Raise("SurrealException", NotConnectedMessage)
    ELSE NoOutcome

\* _validate_connection
_validate_connection(state) ==
    IF state # CONNECTED
    THEN Raise("SurrealException", NotConnectedMessage)
    ELSE NoOutcome

\* _send: sendOk tells whether ws.send_json succeeds; it cannot on a closed
\* websocket.  sends counts the calls of ws.send_json.
_send(state, wsIsOpen, sendOk) ==
    LET v == _validate_connection(state) IN
    IF v.kind = "raise"
    THEN [outcome |-> v, sends |-> 0, delivered |-> FALSE]
    ELSE IF wsIsOpen /\ sendOk
         THEN [outcome |-> NoOutcome, sends |-> 1, delivered |-> TRUE]
         ELSE [outcome |-> TransportRaise("TransportError"), sends |-> 1,
               delivered |-> FALSE]

\* a _recv that swallows the failure of ws.receive_json and answers None
RecvSwallowsFailure(state, frame, recvOk) ==
    LET v == _validate_connection(state) IN
    IF v.kind = "raise"
    THEN [outcome |-> v, response |-> NoResponse, recvs |-> 0, consumed |-> FALSE]
    ELSE IF ~recvOk
         THEN [outcome |-> NoOutcome, response |-> NoResponse, recvs |-> 1,
               consumed |-> FALSE]
         ELSE [outcome |-> NoOutcome, response |-> ParseResponse(frame), recvs |-> 1,
               consumed |-> TRUE]

\* _recv: frame is what ws.receive_json returns, NoFrame when it raises instead.
\* recvs counts the calls of ws.receive_json.
_recv(state, frame, recvOk) ==
    LET v == _validate_connection(state) IN
    IF v.kind = "raise"
    THEN [outcome |-> v, response |-> NoResponse, recvs |-> 0, consumed |-> FALSE]
    ELSE IF ~recvOk
         THEN [outcome |-> TransportRaise("TransportError"), response |-> NoResponse,
               recvs |-> 1, consumed |-> FALSE]
         ELSE LET response == ParseResponse(frame) IN
              IF response.type \in {"ResponseSuccess", "ResponseError"}
              THEN [outcome |-> NoOutcome, response |-> response, recvs |-> 1,
                    consumed |-> TRUE]
              ELSE [outcome |-> TransportRaise(response.type), response |-> NoResponse,
                    recvs |-> 1, consumed |-> TRUE]

\* a _send_receive that goes on to receive after a send that raised
SendReceiveIgnoresSendFailure(state, wsIsOpen, sendOk, frame, recvOk) ==
    LET s == _send(state, wsIsOpen, sendOk)
        r == _recv(state, frame, recvOk)
    IN
    [outcome |-> IF s.outcome.kind = "raise" THEN s.outcome ELSE r.outcome,
     response |-> r.response, sends |-> s.sends, recvs |-> r.recvs,
     delivered |-> s.delivered, consumed |-> r.consumed]

\* _send_receive: await self._send(request); return await self._recv()
_send_receive(state, wsIsOpen, sendOk, frame, recvOk) ==
    LET s == _send(state, wsIsOpen, sendOk) IN
    IF s.outcome.kind = "raise"
    THEN [outcome |-> s.outcome, response |-> NoResponse, sends |-> s.sends,
          recvs |-> 0, delivered |-> FALSE, consumed |-> FALSE]
    ELSE LET r == _recv(state, frame, recvOk) IN
         [outcome |-> r.outcome, response |-> r.response, sends |-> s.sends,
          recvs |-> r.recvs, delivered |-> TRUE, consumed |-> r.consumed]

\* the body of an RPC method after _send_receive
MethodEpilogue(m, sr, tok) ==
    IF sr.outcome.kind = "raise"
    THEN [outcome |-> sr.outcome, token |-> tok]
    ELSE LET v == _validate_response(sr.response, ExceptionOf(m)) IN
         IF v.kind = "raise"
         THEN [outcome |-> v, token |-> tok]
         ELSE MethodResult(m, sr.response, tok)

----------------------------------------------------------------------------
(* The session *)

\* generate_uuid: a uuid4 never seen before; the n-th one is named n
generate_uuid(n) == n + 1

\* the record kept of an operation; withData tells, for an RPC method, whether
\* its optional vars/data argument was given
Op(op, m, before, request, sr, frame, outcome) ==
    [op |-> op, method |-> m, stateBefore |-> before, request |-> request,
     sends |-> sr.sends, recvs |-> sr.recvs, delivered |-> sr.delivered,
     consumed |-> sr.consumed, frame |-> frame, response |-> sr.response,
     outcome |-> outcome, withData |-> FALSE]

NoIo ==
    [sends |-> 0, recvs |-> 0, delivered |-> FALSE, consumed |-> FALSE,
     response |-> NoResponse]

\* No operation is running as a task of its own.  call and close are the
\* positions of an RPC method and of close() between their awaits; method,
\* withData and id describe the RPC method in flight; late tells whether
\* ws.send_json or ws.receive_json was called after close() had called
\* ws.close(); raced tells whether close() had begun when the last call ended.
NoTasks ==
    [call |-> "idle", method |-> "", withData |-> FALSE, id |-> 0,
     close |-> "idle", late |-> FALSE, raced |-> FALSE]

\* Surreal.__init__
Init ==
    /\ client_state = CONNECTING
    /\ token = None
    /\ session = NoObject
    /\ ws = NoObject
    /\ openSessions = {}
    /\ openWs = {}
    /\ nConn = 0
    /\ inbox = <<>>
    /\ nextId = 0
    /\ last = Op("init", "", CONNECTING, NoRequest, NoIo, NoFrame, NoOutcome)
    /\ tasks = NoTasks

\* a connect that marks the session connected before ws_connect has returned
ConnectMarksConnected(connectOk) ==
    /\ nConn < MaxConnects
    /\ nConn' = nConn + 1
    /\ session' = nConn + 1
    /\ openSessions' = openSessions \cup {nConn + 1}
    /\ client_state' = CONNECTED
    /\ IF connectOk
       THEN /\ ws' = nConn + 1
            /\ openWs' = openWs \cup {nConn + 1}
            /\ inbox' = <<>>
            /\ last' = Op("connect", "", client_state, NoRequest, NoIo, NoFrame,
                          Return(None))
       ELSE /\ UNCHANGED <<ws, openWs, inbox>>
            /\ last' = Op("connect", "", client_state, NoRequest, NoIo, NoFrame,
                          TransportRaise("ConnectionError"))
    /\ UNCHANGED <<token, nextId, tasks>>

\* Surreal.connect: connectOk tells whether session.ws_connect succeeds
Connect(connectOk) ==
    /\ nConn < MaxConnects
    /\ nConn' = nConn + 1
    /\ session' = nConn + 1
    /\ openSessions' = openSessions \cup {nConn + 1}
    /\ IF connectOk
       THEN /\ ws' = nConn + 1
            /\ openWs' = openWs \cup {nConn + 1}
            /\ inbox' = <<>>
            /\ client_state' = CONNECTED
            /\ last' = Op("connect", "", client_state, NoRequest, NoIo, NoFrame,
                          Return(None))
       ELSE /\ UNCHANGED <<ws, openWs, inbox, client_state>>
            /\ last' = Op("connect", "", client_state, NoRequest, NoIo, NoFrame,
                          TransportRaise("ConnectionError"))
    /\ UNCHANGED <<token, nextId, tasks>>

\* Surreal.close: wsCloseOk and sessionCloseOk tell whether ws.close() and
\* session.close() succeed; released tells whether a close that raises has
\* released its object all the same
Close(wsCloseOk, sessionCloseOk, released) ==
    LET wsRaises == ws # NoObject /\ ~wsCloseOk
        sessionRaises == ~wsRaises /\ session # NoObject /\ ~sessionCloseOk
        raises == wsRaises \/ sessionRaises
    IN
    /\ openWs' = IF ws # NoObject /\ (wsCloseOk \/ released)
                 THEN openWs \ {ws} ELSE openWs
    /\ openSessions' = IF ~wsRaises /\ session # NoObject /\ (sessionCloseOk \/ released)
                       THEN openSessions \ {session} ELSE openSessions
    /\ client_state' = IF raises THEN client_state ELSE DISCONNECTED
    /\ last' = Op("close", "", client_state, NoRequest, NoIo, NoFrame,
                  IF raises THEN TransportRaise("TransportError") ELSE Return(None))
    /\ UNCHANGED <<token, session, ws, nConn, inbox, nextId, tasks>>

\* an RPC method that gives the session up when its call raises
CallDisconnectsOnError(m, withData) ==
    /\ nextId < MaxCalls
    /\ LET id == generate_uuid(nextId)
           request == Request(id, RpcMethod(m), MethodParams(m, withData))
           wsIsOpen == ws \in openWs
       IN
       \E sendOk \in IF client_state = CONNECTED /\ wsIsOpen THEN BOOLEAN ELSE {FALSE} :
          LET delivered == _send(client_state, wsIsOpen, sendOk).delivered
              queue == IF delivered THEN Append(inbox, id) ELSE inbox
          IN
          \E recvOk \in IF delivered THEN BOOLEAN ELSE {FALSE} :
          \E frame \in IF recvOk THEN ServerFrames(Head(queue)) ELSE {NoFrame} :
             LET sr == _send_receive(client_state, wsIsOpen, sendOk, frame, recvOk)
                 ep == MethodEpilogue(m, sr, token)
             IN
             /\ nextId' = id
             /\ inbox' = IF sr.consumed THEN Tail(queue) ELSE queue
             /\ token' = ep.token
             /\ client_state' = IF ep.outcome.kind = "raise" /\ client_state = CONNECTED
                                THEN DISCONNECTED ELSE client_state
             /\ last' = [Op("call", m, client_state, request, sr,
                            IF sr.consumed THEN frame ELSE NoFrame, ep.outcome)
                           EXCEPT !.withData = withData]
    /\ UNCHANGED <<session, ws, openSessions, openWs, nConn, tasks>>

\* One RPC method m, from the Request it builds to its return.  ws.send_json
\* succeeds or raises (sendOk); a request that was sent is answered by the
\* server, whose reply joins the queue of self.ws; ws.receive_json returns the
\* oldest queued frame or raises (recvOk), and then leaves the queue as it was.
Call(m, withData) ==
    /\ nextId < MaxCalls
    /\ LET id == generate_uuid(nextId)
           request == Request(id, RpcMethod(m), MethodParams(m, withData))
           wsIsOpen == ws \in openWs
       IN
       \E sendOk \in IF client_state = CONNECTED /\ wsIsOpen THEN BOOLEAN ELSE {FALSE} :
          LET delivered == _send(client_state, wsIsOpen, sendOk).delivered
              queue == IF delivered THEN Append(inbox, id) ELSE inbox
          IN
          \E recvOk \in IF delivered THEN BOOLEAN ELSE {FALSE} :
          \E frame \in IF recvOk THEN ServerFrames(Head(queue)) ELSE {NoFrame} :
             LET sr == _send_receive(client_state, wsIsOpen, sendOk, frame, recvOk)
                 ep == MethodEpilogue(m, sr, token)
             IN
             /\ nextId' = id
             /\ inbox' = IF sr.consumed THEN Tail(queue) ELSE queue
             /\ token' = ep.token
             /\ last' = [Op("call", m, client_state, request, sr,
                            IF sr.consumed THEN frame ELSE NoFrame, ep.outcome)
                           EXCEPT !.withData = withData]
    /\ UNCHANGED <<client_state, session, ws, openSessions, openWs, nConn, tasks>>

Next ==
    \/ \E connectOk \in BOOLEAN : Connect(connectOk)
    \/ \E wsCloseOk, sessionCloseOk, released \in BOOLEAN :
          Close(wsCloseOk, sessionCloseOk, released)
    \/ \E m \in Methods :
       \E withData \in IF m \in OptionalData THEN BOOLEAN ELSE {FALSE} :
          Call(m, withData)

Spec == Init /\ [][Next]_vars

----------------------------------------------------------------------------
(* Scoped use: async with Surreal(url) as db: <body>.  The body runs only   *)
(* when __aenter__ has returned; __aexit__ runs when the body ends, by      *)
(* return or by exception; when __aenter__ raises, __aexit__ is not called. *)

\* __aenter__ has returned and __aexit__ has not run yet
InScope ==
    \/ last.op = "connect" /\ last.outcome.kind = "return"
    \/ last.op = "call"

\* Surreal.__aenter__: await self.connect()
AEnter(connectOk) ==
    /\ last.op = "init"
    /\ Connect(connectOk)

\* an RPC method called in the body of the with statement
Body(m, withData) ==
    /\ InScope
    /\ Call(m, withData)

\* Surreal.__aexit__: await self.close()
AExit(wsCloseOk, sessionCloseOk, released) ==
    /\ InScope
    /\ Close(wsCloseOk, sessionCloseOk, released)

NextScoped ==
    \/ \E connectOk \in BOOLEAN : AEnter(connectOk)
    \/ \E m \in Methods :
       \E withData \in IF m \in OptionalData THEN BOOLEAN ELSE {FALSE} :
          Body(m, withData)
    \/ \E wsCloseOk, sessionCloseOk, released \in BOOLEAN :
          AExit(wsCloseOk, sessionCloseOk, released)

SpecScoped == Init /\ [][NextScoped]_vars

----------------------------------------------------------------------------
(* The decoding of one inbound frame by _recv, over frames of every shape:  *)
(* the error member absent, holding a non-envelope value, or an envelope.   *)

\* values an "error" member may hold besides an envelope
ErrorValues == {None, "{}", "[]", "0", "''", "oops"}

ErrorMembers ==
    {NoError} \cup {ErrorValue(v) : v \in ErrorValues}
        \cup {ErrorObject(e) : e \in ServerErrors \cup {[code |-> 0, message |-> ""]}}

\* frames carrying an id, and the id-less error frames
Frames ==
    {[hasId |-> TRUE, id |-> i, result |-> r, error |-> e] :
        i \in 1..MaxCalls, r \in Results, e \in ErrorMembers}
    \cup {ErrorFrame(e) : e \in ServerErrors \cup {[code |-> 0, message |-> ""]}}

\* a connected session about to read the frame ws.receive_json returns
InitDecode ==
    /\ client_state = CONNECTED
    /\ token = None
    /\ session = 1
    /\ ws = 1
    /\ openSessions = {1}
    /\ openWs = {1}
    /\ nConn = 1
    /\ inbox = <<>>
    /\ nextId = 0
    /\ \E frame \in Frames :
          last = Op("frame", "", CONNECTED, NoRequest, NoIo, frame, NoOutcome)
    /\ tasks = NoTasks

\* _recv on that frame
Decode ==
    /\ last.op = "frame"
    /\ LET r == _recv(client_state, last.frame, TRUE) IN
       last' = [last EXCEPT !.op = "decoded", !.recvs = r.recvs,
                            !.consumed = r.consumed, !.response = r.response,
                            !.outcome = r.outcome]
    /\ UNCHANGED <<client_state, token, session, ws, openSessions, openWs, nConn,
                   inbox, nextId, tasks>>

SpecDecode == InitDecode /\ [][Decode]_vars

----------------------------------------------------------------------------
(* close() running beside an RPC method.  Both are coroutines of one event  *)
(* loop: each runs without interruption from one await to the next, and at  *)
(* an await the other may run.  close() awaits ws.close() and then          *)
(* session.close(); an RPC method awaits ws.send_json and ws.receive_json.  *)

\* close() has called ws.close() on the websocket of the session
CloseBegan == tasks.close # "idle"

\* the record of an RPC method that ended: sr as _send_receive would give it
CallEnds(sr, frame) ==
    LET m == tasks.method
        request == Request(tasks.id, RpcMethod(m), MethodParams(m, tasks.withData))
        ep == MethodEpilogue(m, sr, token)
    IN
    /\ token' = ep.token
    /\ last' = [Op("call", m, CONNECTED, request, sr, frame, ep.outcome)
                  EXCEPT !.withData = tasks.withData]

\* a connected session on which nothing is in flight
InitRace ==
    /\ client_state = CONNECTED
    /\ token = None
    /\ session = 1
    /\ ws = 1
    /\ openSessions = {1}
    /\ openWs = {1}
    /\ nConn = 1
    /\ inbox = <<>>
    /\ nextId = 0
    /\ last = Op("connect", "", CONNECTING, NoRequest, NoIo, NoFrame, Return(None))
    /\ tasks = NoTasks

\* An RPC method m up to its first await: it builds the Request and enters
\* _send, which validates the connection and calls ws.send_json.
CallSend(m, withData) ==
    /\ tasks.call = "idle"
    /\ nextId < MaxCalls
    /\ LET id == generate_uuid(nextId)
           request == Request(id, RpcMethod(m), MethodParams(m, withData))
           wsIsOpen == ws \in openWs
       IN
       \E sendOk \in IF client_state = CONNECTED /\ wsIsOpen THEN BOOLEAN ELSE {FALSE} :
          LET s == _send(client_state, wsIsOpen, sendOk)
              late == tasks.late \/ (s.sends > 0 /\ CloseBegan)
          IN
          /\ nextId' = id
          /\ IF s.outcome.kind = "raise"
             THEN /\ tasks' = [tasks EXCEPT !.late = late, !.raced = CloseBegan]
                  /\ last' = [Op("call", m, client_state, request,
                                 [NoIo EXCEPT !.sends = s.sends], NoFrame, s.outcome)
                                EXCEPT !.withData = withData]
                  /\ UNCHANGED inbox
             ELSE /\ tasks' = [tasks EXCEPT !.call = "sent", !.method = m,
                                            !.withData = withData, !.id = id,
                                            !.late = late]
                  /\ inbox' = Append(inbox, id)
                  /\ UNCHANGED last
    /\ UNCHANGED <<client_state, token, session, ws, openSessions, openWs, nConn>>

\* The RPC method after ws.send_json has returned: _recv validates the
\* connection and calls ws.receive_json.
CallRecv ==
    /\ tasks.call = "sent"
    /\ LET v == _validate_connection(client_state) IN
       IF v.kind = "raise"
       THEN /\ tasks' = [tasks EXCEPT !.call = "idle", !.raced = CloseBegan]
            /\ CallEnds([outcome |-> v, response |-> NoResponse, sends |-> 1,
                         recvs |-> 0, delivered |-> TRUE, consumed |-> FALSE],
                        NoFrame)
       ELSE /\ tasks' = [tasks EXCEPT !.call = "receiving",
                                      !.late = tasks.late \/ CloseBegan]
            /\ UNCHANGED <<token, last>>
    /\ UNCHANGED <<client_state, session, ws, openSessions, openWs, nConn, inbox,
                   nextId>>

\* ws.receive_json returns the oldest queued frame or raises (it raises on a
\* closed websocket), and the RPC method runs to its end.  The connection was
\* validated when ws.receive_json was called.
CallReturn ==
    /\ tasks.call = "receiving"
    /\ \E recvOk \in IF ws \in openWs THEN BOOLEAN ELSE {FALSE} :
       \E frame \in IF recvOk THEN ServerFrames(Head(inbox)) ELSE {NoFrame} :
          LET r == _recv(CONNECTED, frame, recvOk) IN
          /\ inbox' = IF r.consumed THEN Tail(inbox) ELSE inbox
          /\ CallEnds([outcome |-> r.outcome, response |-> r.response, sends |-> 1,
                       recvs |-> r.recvs, delivered |-> TRUE,
                       consumed |-> r.consumed],
                      IF r.consumed THEN frame ELSE NoFrame)
    /\ tasks' = [tasks EXCEPT !.call = "idle", !.raced = CloseBegan]
    /\ UNCHANGED <<client_state, session, ws, openSessions, openWs, nConn, nextId>>

\* close() up to its first await: it calls ws.close() when self.ws is set
CloseWs ==
    /\ tasks.close = "idle"
    /\ ws # NoObject
    /\ tasks' = [tasks EXCEPT !.close = "closing_ws"]
    /\ UNCHANGED <<client_state, token, session, ws, openSessions, openWs, nConn,
                   inbox, nextId, last>>

\* ws.close() returns or raises; when it returns, close() calls
\* session.close() (self.session is set in every state of InitRace's runs).
\* released: a ws.close() that raises has released the websocket all the same.
CloseSession(wsCloseOk, released) ==
    /\ tasks.close = "closing_ws"
    /\ openWs' = IF wsCloseOk \/ released THEN openWs \ {ws} ELSE openWs
    /\ IF wsCloseOk
       THEN /\ tasks' = [tasks EXCEPT !.close = "closing_session"]
            /\ UNCHANGED last
       ELSE /\ tasks' = [tasks EXCEPT !.close = "raised"]
            /\ last' = Op("close", "", client_state, NoRequest, NoIo, NoFrame,
                          TransportRaise("TransportError"))
    /\ UNCHANGED <<client_state, token, session, ws, openSessions, nConn, inbox,
                   nextId>>

\* session.close() returns or raises; when it returns, close() marks the
\* session DISCONNECTED.
CloseReturn(sessionCloseOk, released) ==
    /\ tasks.close = "closing_session"
    /\ openSessions' = IF sessionCloseOk \/ released
                       THEN openSessions \ {session} ELSE openSessions
    /\ client_state' = IF sessionCloseOk THEN DISCONNECTED ELSE client_state
    /\ tasks' = [tasks EXCEPT !.close = IF sessionCloseOk THEN "returned" ELSE "raised"]
    /\ last' = Op("close", "", client_state, NoRequest, NoIo, NoFrame,
                  IF sessionCloseOk THEN Return(None)
                  ELSE TransportRaise("TransportError"))
    /\ UNCHANGED <<token, session, ws, openWs, nConn, inbox, nextId>>

NextRace ==
    \/ \E m \in Methods :
       \E withData \in IF m \in OptionalData THEN BOOLEAN ELSE {FALSE} :
          CallSend(m, withData)
    \/ CallRecv
    \/ CallReturn
    \/ CloseWs
    \/ \E wsCloseOk, released \in BOOLEAN : CloseSession(wsCloseOk, released)
    \/ \E sessionCloseOk, released \in BOOLEAN : CloseReturn(sessionCloseOk, released)

SpecRace == InitRace /\ [][NextRace]_vars

----------------------------------------------------------------------------
(* Properties *)

Range(seq) == {seq[i] : i \in DOMAIN seq}

IsCall == last.op = "call"

\* the call consumed a frame carrying an {code, message} error envelope
GotErrorEnvelope == IsCall /\ last.consumed /\ last.frame.error.tag = "object"

\* the call consumed a frame {id, result} without an error member
GotSuccessFrame ==
    IsCall /\ last.consumed /\ last.frame.hasId /\ last.frame.error.tag = "absent"

Raised(exception) == last.outcome.kind = "raise" /\ last.outcome.exc = exception

\* C1: an RPC call issued while the state is Connecting or Disconnected fails
\* with the not-connected error and makes no transport send and no receive.
C1_NotConnectedNoTransport ==
    (IsCall /\ last.stateBefore \in {CONNECTING, DISCONNECTED}) =>
        /\ last.outcome = Raise("SurrealException", NotConnectedMessage)
        /\ last.sends = 0
        /\ last.recvs = 0

C1_Witness ==
    /\ IsCall
    /\ last.stateBefore = DISCONNECTED
    /\ last.outcome = Raise("SurrealException", NotConnectedMessage)
    /\ last.sends = 0

\* C2: Disconnected is terminal: no operation moves a Disconnected session
\* back to Connected.
C2_DisconnectedTerminal ==
    [][client_state = DISCONNECTED => client_state' # CONNECTED]_vars

\* C3: close() never raises and always leaves the session Disconnected,
\* whether or not the underlying closes report an error.
C3_CloseNeverRaises ==
    last.op = "close" =>
        (last.outcome.kind # "raise" /\ client_state = DISCONNECTED)

\* C4: an error envelope answering signin, signup, authenticate or invalidate
\* raises the authentication exception.
C4_AuthErrorKind ==
    (GotErrorEnvelope /\ last.method \in {"signin", "signup", "authenticate", "invalidate"})
        => Raised("SurrealAuthenticationException")

C4_Witness ==
    /\ GotErrorEnvelope
    /\ last.method = "authenticate"
    /\ Raised("SurrealAuthenticationException")

\* C5 as stated: an error envelope answering let, create, update, merge, patch,
\* delete or kill raises the permission exception; answering use, query,
\* select, info, live or ping it raises the generic exception.
C5_Original ==
    /\ (GotErrorEnvelope /\ last.method \in
            {"let", "create", "update", "merge", "patch", "delete", "kill"})
          => Raised("SurrealPermissionException")
    /\ (GotErrorEnvelope /\ last.method \in
            {"use", "query", "select", "info", "live", "ping"})
          => Raised("SurrealException")

\* C5 as amended: an error envelope answering let (or its alias set), create,
\* update, merge, patch or delete raises the permission exception; answering
\* kill, use, query, select, info, live or ping it raises the generic exception.
C5_Amended ==
    /\ (GotErrorEnvelope /\ last.method \in
            {"let", "set", "create", "update", "merge", "patch", "delete"})
          => Raised("SurrealPermissionException")
    /\ (GotErrorEnvelope /\ last.method \in
            {"kill", "use", "query", "select", "info", "live", "ping"})
          => Raised("SurrealException")

C5_Witness ==
    /\ GotErrorEnvelope
    /\ last.method = "kill"
    /\ Raised("SurrealException")

\* C6: the error raised for an error envelope {code, message} carries the
\* server's message verbatim and the server's integer code.
C6_ErrorCarriesMessageAndCode ==
    GotErrorEnvelope =>
        /\ last.outcome.kind = "raise"
        /\ StrArg(last.frame.error.message) \in Range(last.outcome.args)
        /\ IntArg(last.frame.error.code) \in Range(last.outcome.args)

\* C7: in Connected state a result-returning call that receives the frame
\* {id: X, result: R} returns exactly R.
C7_RoundTrip ==
    (GotSuccessFrame /\ last.stateBefore = CONNECTED /\ last.method \in
        {"query", "select", "create", "update", "merge", "patch", "delete",
         "info", "live", "ping"})
        => last.outcome = Return(last.frame.result)

C7_Witness ==
    /\ GotSuccessFrame
    /\ last.method = "select"
    /\ last.frame.result = "[]"
    /\ last.outcome = Return("[]")

\* C8: the Success response a call consumes carries the id of the request
\* that same call sent, also after an earlier call failed.
C8_FifoPairing ==
    GotSuccessFrame => last.frame.id = last.request.id

\* the call reached the transport and ws.send_json or ws.receive_json raised
TransportFailed ==
    /\ IsCall
    /\ \/ last.sends = 1 /\ ~last.delivered
       \/ last.recvs = 1 /\ ~last.consumed

\* C9: a send or receive failure during a call is raised to the caller and
\* the session stays Connected.
C9_TransportFailurePropagates ==
    (TransportFailed /\ last.stateBefore = CONNECTED) =>
        (Raised("TransportError") /\ client_state = CONNECTED)

C9_Witness ==
    /\ TransportFailed
    /\ last.delivered
    /\ last.stateBefore = CONNECTED
    /\ Raised("TransportError")
    /\ client_state = CONNECTED

\* C10: of two close() calls in sequence neither raises, and the state is
\* Disconnected after each.
C10_CloseTwice ==
    [][(last.op = "close" /\ last'.op = "close") =>
          /\ last.outcome.kind # "raise"
          /\ last'.outcome.kind # "raise"
          /\ client_state = DISCONNECTED
          /\ client_state' = DISCONNECTED]_vars


Returned == last.outcome.kind = "return"

\* C11: the cached token is absent at first; a successful signin or signup
\* sets it to the result the server returned and returns that value; a
\* successful invalidate clears it.
C11_TokenCache ==
    /\ last.op = "init" => token = None
    /\ (IsCall /\ last.method \in {"signin", "signup"} /\ Returned) =>
          (token = last.frame.result /\ last.outcome = Return(last.frame.result))
    /\ (IsCall /\ last.method = "invalidate" /\ Returned) => token = None

C11_Witness ==
    /\ IsCall
    /\ last.method = "signup"
    /\ last.outcome = Return("tok")
    /\ token = "tok"


\* the last operation was a connect() whose ws_connect raised: self.session is
\* the new ClientSession and self.ws is not its websocket
ConnectFailed == last.op = "connect" /\ ws # session

NotConnectedError == Raise("SurrealException", NotConnectedMessage)

\* C12: when ws_connect fails in a session that is Connecting, connect()
\* raises, the state is still Connecting, and every RPC call issued while no
\* connect() has succeeded fails with the not-connected error.
C12_ConnectFailureSurfaced ==
    /\ []((ConnectFailed /\ last.stateBefore = CONNECTING) =>
            (last.outcome.kind = "raise" /\ client_state = CONNECTING))
    /\ [][(client_state = CONNECTING /\ nConn > 0 /\ last'.op = "call") =>
            (last'.outcome = NotConnectedError /\ last'.sends = 0)]_vars

C12_Witness ==
    /\ IsCall
    /\ client_state = CONNECTING
    /\ nConn > 0
    /\ session \in openSessions
    /\ last.outcome = NotConnectedError


\* control has left the with statement: __aexit__ has run, or __aenter__ raised
ScopeLeft ==
    \/ last.op = "close"
    \/ last.op = "connect" /\ last.outcome.kind = "raise"

\* C13: scoped use releases every transport resource it acquired (client
\* session and websocket) on every exit path, also when connect() fails
\* during entry.
C13_ScopedTeardown ==
    ScopeLeft => (openSessions = {} /\ openWs = {})


\* C14: after any sequence of connect() and close() the session has at most
\* one websocket opened and not yet closed.
C14_AtMostOneTransport == Cardinality(openWs) <= 1


\* from this state a call can be issued that is sent and returns
NextCallCanSucceed ==
    ENABLED (Call("ping", FALSE) /\ last'.sends = 1 /\ last'.outcome.kind = "return")

\* from this state a call can be issued that is not sent to the transport
NextCallCanBeUnsent ==
    ENABLED (\E m \in Methods : Call(m, FALSE) /\ last'.sends = 0)

\* C15: after a call raised the error of a server error envelope, the state
\* is still Connected and the next call is sent to the transport and can
\* succeed (as long as the model lets a next call be issued).
C15_ErrorKeepsSessionUsable ==
    GotErrorEnvelope =>
        /\ last.outcome.kind = "raise"
        /\ last.outcome.exc \in {"SurrealException", "SurrealAuthenticationException",
                                  "SurrealPermissionException"}
        /\ client_state = CONNECTED
        /\ nextId < MaxCalls => (NextCallCanSucceed /\ ~NextCallCanBeUnsent)

C15_Witness ==
    /\ GotErrorEnvelope
    /\ Raised("SurrealPermissionException")
    /\ client_state = CONNECTED
    /\ nextId < MaxCalls
    /\ NextCallCanSucceed


\* the request of the last call went to ws.send_json
RequestSent == IsCall /\ last.sends = 1

Decoded == last.op = "decoded"

ErrorMemberFalsy ==
    last.frame.error.tag = "value" /\ ~Truthy(last.frame.error.value)

\* C18 as stated: a frame is classified as an Error response if and only if
\* it carries the error member, whatever its value; every frame without the
\* member is parsed as Success.
C18_Original ==
    Decoded =>
        /\ (last.response.type = "ResponseError") <=> (last.frame.error.tag # "absent")
        /\ last.frame.error.tag = "absent" => last.response.type = "ResponseSuccess"

\* C18 as amended: a frame is classified as an Error response if and only if
\* its error member holds a {code, message} object; a frame carrying an id
\* whose error member is absent or falsy (null, empty, zero) is parsed as
\* Success.
C18_Amended ==
    Decoded =>
        /\ (last.response.type = "ResponseError") <=> (last.frame.error.tag = "object")
        /\ (last.frame.hasId /\ (last.frame.error.tag = "absent" \/ ErrorMemberFalsy))
              => last.response.type = "ResponseSuccess"

C18_Witness ==
    /\ Decoded
    /\ last.frame.hasId
    /\ last.frame.error = ErrorValue(None)
    /\ last.response.type = "ResponseSuccess"


\* C19 as stated: a call in Connected state makes exactly one send and at most
\* one receive; no receive when the send fails, and exactly one frame is
\* consumed when the send succeeds.
C19_Original ==
    (IsCall /\ last.stateBefore = CONNECTED) =>
        /\ last.sends = 1
        /\ last.recvs <= 1
        /\ ~last.delivered => (last.recvs = 0 /\ ~last.consumed)
        /\ last.delivered => (last.recvs = 1 /\ last.consumed)

\* C19 as amended: a call in Connected state makes exactly one send and at
\* most one receive; no receive when the send fails, and exactly one receive
\* when the send succeeds, which consumes exactly one frame unless the receive
\* itself fails, and then the call raises that failure.
C19_Amended ==
    (IsCall /\ last.stateBefore = CONNECTED) =>
        /\ last.sends = 1
        /\ last.recvs <= 1
        /\ ~last.delivered => (last.recvs = 0 /\ ~last.consumed)
        /\ last.delivered =>
              /\ last.recvs = 1
              /\ last.consumed \/ Raised("TransportError")

C19_Witness ==
    /\ IsCall
    /\ last.stateBefore = CONNECTED
    /\ last.sends = 1
    /\ last.delivered
    /\ last.recvs = 1
    /\ last.consumed
    /\ Returned


\* C20: the cached token changes only by a signin, signup or invalidate that
\* returns; every other operation, and those three when they raise, leave it
\* as it was.
C20_TokenChangesOnlyByAuth ==
    [][token' # token =>
          /\ last'.op = "call"
          /\ last'.method \in {"signin", "signup", "invalidate"}
          /\ last'.outcome.kind = "return"]_vars

C20_Witness ==
    /\ IsCall
    /\ last.method = "signin"
    /\ Raised("SurrealAuthenticationException")
    /\ token = "tok"


\* C21: when close() runs beside an RPC call on the same session, no
\* ws.send_json and no ws.receive_json is called on the websocket after
\* close() has begun closing it, and a call that ends after close() has begun
\* ends with the not-connected error.
C21_NoTransportAfterCloseBegan ==
    /\ ~tasks.late
    /\ IsCall /\ tasks.raced => last.outcome = NotConnectedError

====
